---- MODULE Spec2Model ----
(***************************************************************************)
(* Retina-OCT: the batch orchestrator (App.tsx), the remote analysis       *)
(* client with its backoff retrier (services/geminiService.ts, kept here   *)
(* as src/unnamed/part_000) and the mapping verifier (utils/verifyMapping, *)
(* src/utils/fileHelpers.ts lines 31-57).                                  *)
(*                                                                         *)
(* JavaScript is single threaded: a handler runs until it suspends on a    *)
(* real I/O wait (the remote call, the backoff timer, the FileReader, the  *)
(* digest); promise continuations are microtasks and run before the next   *)
(* event.  One action of the model is therefore one event together with    *)
(* the whole chain of continuations it triggers.                           *)
(*                                                                         *)
(* handleAnalyzeAll and handleRetryFailed are modelled as the functions    *)
(* they are: they carry no check of isAnalyzing, and the `disabled`        *)
(* attributes of their buttons are not modelled, so that a run can start   *)
(* while another is active, the case runAnalysisLoop lines 49-51 are       *)
(* written for.  handleRefineAnalysis is called for the items whose card   *)
(* shows the refinement form (components/AnalysisResults.tsx line 203).    *)
(***************************************************************************)
EXTENDS Integers, Sequences, FiniteSets, TLC

\* ---------------------------------------------------------------- bounds
NumItems == 2        \* files that are uploaded in a session with every handler in play
MaxItems == 3        \* files that are uploaded in a session of batch runs
MaxMixedRefines == 1  \* refinements in a session of batch runs with three files
MaxRuns == 3         \* calls of runAnalysisLoop in one session
MaxRefines == 2      \* calls of handleRefineAnalysis in one session
MaxAnomalies == 1    \* remote responses that are not the nominal one
MaxDeletes == 1      \* calls of handleDeleteImage in one session
MaxLen == 3          \* characters of a confidence text handed to parseFloat
MaxBudget == 3       \* largest attempt budget handed to retryWithBackoff

\* ------------------------------------------------------ program constants
DefaultRetries == 3
DefaultDelay == 1000
CONFIDENCE_THRESHOLD == 70

\* ------------------------------------------------------------ JS values
Undefined == "undefined"
Truthy(s) == s # Undefined /\ s # ""
None == <<>>
Some(x) == <<x>>
IsSome(o) == Len(o) = 1
The(o) == o[1]

IdNames == <<"id1", "id2", "id3", "id4">>
ItemIds == {IdNames[n] : n \in 1..MaxItems}
ForeignId == "id9"
FileNames == <<"bytes1", "bytes2", "bytes3", "bytes4">>
HashNames == <<"sha1", "sha2", "sha3", "sha4">>

Runs == 1..MaxRuns
Refs == 1..MaxRefines
Kinds == {"segmentation", "segmentationUncertainty", "classification", "heatmap"}
ImageKinds == Kinds \ {"classification"}

VARIABLES
    images,              \* useState<AnalyzableImage[]>
    isAnalyzing,         \* useState<boolean>
    abortControllerRef,  \* useRef<AbortController | null>: 0 is null, else the run owning the controller
    apiKey,              \* process.env.API_KEY is set
    runs,                \* the activations of runAnalysisLoop, each with its controller
    refs,                \* the activations of handleRefineAnalysis
    calls,               \* the sub-calls of every analyzeImage invocation
    uuids,               \* ids minted by crypto.randomUUID so far
    anomalies,           \* non-nominal remote responses so far
    deletes,             \* items deleted so far
    probe                \* the activation of a function examined on its own

orch == <<images, isAnalyzing, abortControllerRef, runs, refs>>
env == <<apiKey, deletes, probe>>
app == <<images, isAnalyzing, abortControllerRef, apiKey, runs, refs, calls, uuids, anomalies,
         deletes>>
vars == <<images, isAnalyzing, abortControllerRef, apiKey, runs, refs, calls, uuids, anomalies,
          deletes, probe>>

\* ------------------------------------------------------- error messages
\* A message is a sequence of words; toLowerCase and includes work word by word.
LowerOf(w) ==
    CASE w = "Quota" -> "quota"
      [] w = "QUOTA" -> "quota"
      [] w = "Rate Limit" -> "rate limit"
      [] w = "Server Error" -> "server error"
      [] w = "UNAVAILABLE" -> "unavailable"
      [] w = "Unavailable" -> "unavailable"
      [] w = "API key not valid" -> "api key not valid"
      [] w = "Blocked" -> "blocked"
      [] w = "SAFETY" -> "safety"
      [] w = "Aborted" -> "aborted"
      [] w = "Request cancelled" -> "request cancelled"
      [] w = "Bad Request" -> "bad request"
      [] OTHER -> w

PartsOf(w) ==
    CASE w = "aborted" -> {"aborted", "abort"}
      [] w = "blocked" -> {"blocked"}
      [] w = "500 internal" -> {"500 internal", "500"}
      [] OTHER -> {w}

toLowerCase(msg) == [i \in DOMAIN msg |-> LowerOf(msg[i])]
includes(msg, kw) == \E i \in DOMAIN msg : kw \in PartsOf(msg[i])

Err(name, message) == [name |-> name, message |-> message]
RequestCancelled == <<"Request cancelled">>
CancelError == Err("Error", RequestCancelled)

parseApiError(error) ==
    LET message == toLowerCase(error.message) IN
    IF includes(message, "api key not valid") THEN <<"Invalid API Key.">>
    ELSE IF includes(message, "quota") \/ includes(message, "rate limit")
        THEN <<"API Quota Exceeded.">>
    ELSE IF includes(message, "blocked") \/ includes(message, "safety")
        THEN <<"Content Safety Error.">>
    ELSE IF includes(message, "server error") \/ includes(message, "500")
        THEN <<"AI Service Unavailable.">>
    ELSE IF includes(message, "abort") \/ error.name = "AbortError"
        THEN <<"Request cancelled by user.">>
    ELSE error.message

\* ------------------------------------------------------ retryWithBackoff
NoRetryOnUpperCase(error) ==
    \/ includes(error.message, "quota")
    \/ includes(error.message, "rate limit")
    \/ includes(error.message, "server error")
    \/ includes(error.message, "unavailable")

isRetryableMessage(error) ==
    LET msg == toLowerCase(error.message) IN
    \/ includes(msg, "quota")
    \/ includes(msg, "rate limit")
    \/ includes(msg, "server error")
    \/ includes(msg, "unavailable")

\* the catch block: TRUE when the failure is followed by a wait and a re-invocation
shouldRetry(retries, error) ==
    IF retries = 0 \/ error.name = "AbortError" THEN FALSE
    ELSE isRetryableMessage(error)

ConstantDelay(delay) == delay
nextDelay(delay) == delay * 2

\* the sub-call of one retryWithBackoff(() => makeRequest(...)) chain
SubCall(st, retries, delay, out) == [st |-> st, retries |-> retries, delay |-> delay, out |-> out]
Idle == SubCall("idle", 0, 0, None)
Skipped == SubCall("skipped", 0, 0, None)
Over == SubCall("over", 0, 0, None)

makeRequestUnchecked(aborted) == "invoke"
\* makeRequest: the check of signal.aborted and the call of fn in one synchronous step
makeRequest(aborted) == IF aborted THEN "throw" ELSE "invoke"

\* the catch block of retryWithBackoff for a failure `error` of the current attempt
catchFailure(retries, delay, error) ==
    IF shouldRetry(retries, error)
    THEN SubCall("backoff", retries, delay, None)
    ELSE SubCall("failed", 0, 0, Some(error))

\* retryWithBackoff up to its first suspension, fn being makeRequest(remote call)
retryWithBackoff(retries, delay, aborted) ==
    IF makeRequest(aborted) = "invoke"
    THEN SubCall("inflight", retries, delay, None)
    ELSE catchFailure(retries, delay, CancelError)

\* the timer of line 56 fires: return retryWithBackoff(fn, retries - 1, delay * 2)
afterDelay(sc, aborted) == retryWithBackoff(sc.retries - 1, nextDelay(sc.delay), aborted)

\* ------------------------------------------------------- verifyMapping
generateFileHash(file) ==
    HashNames[CHOOSE n \in DOMAIN FileNames : FileNames[n] = file]

verifyMapping(image, resultId, backendHash) ==
    IF Truthy(resultId) /\ resultId # image.id THEN FALSE
    ELSE IF Truthy(backendHash) /\ generateFileHash(image.file) # backendHash THEN FALSE
    ELSE TRUE

\* ---------------------------------------------------------- parseFloat
DigitChars == <<"0", "1", "2", "3", "4", "5", "6", "7", "8", "9">>
IsDigit(c) == \E d \in DOMAIN DigitChars : DigitChars[d] = c
DigitVal(c) == (CHOOSE d \in DOMAIN DigitChars : DigitChars[d] = c) - 1

RECURSIVE SkipSpace(_, _)
SkipSpace(s, i) == IF i <= Len(s) /\ s[i] = " " THEN SkipSpace(s, i + 1) ELSE i

RECURSIVE RunEnd(_, _)
RunEnd(s, i) == IF i <= Len(s) /\ IsDigit(s[i]) THEN RunEnd(s, i + 1) ELSE i

RECURSIVE NumOf(_, _, _)
\* the number written by the digits s[i..j-1]
NumOf(s, i, j) == IF j <= i THEN 0 ELSE NumOf(s, i, j - 1) * 10 + DigitVal(s[j - 1])

RECURSIVE Pow10(_)
Pow10(n) == IF n = 0 THEN 1 ELSE 10 * Pow10(n - 1)

NaN == [nan |-> TRUE, num |-> 0, den |-> 1]

\* parseFloat on texts without exponent and without "Infinity": the value num/den
parseFloat(s) ==
    LET a == SkipSpace(s, 1)
        signed == a <= Len(s) /\ s[a] \in {"+", "-"}
        b == IF signed THEN a + 1 ELSE a
        c == RunEnd(s, b)
        dot == c <= Len(s) /\ s[c] = "."
        d == IF dot THEN RunEnd(s, c + 1) ELSE c
        nFrac == IF dot THEN d - (c + 1) ELSE 0
        mag == NumOf(s, b, c) * Pow10(nFrac) + (IF dot THEN NumOf(s, c + 1, d) ELSE 0)
    IN  IF (c - b) + nFrac = 0 THEN NaN
        ELSE [nan |-> FALSE,
              num |-> IF signed /\ s[a] = "-" THEN 0 - mag ELSE mag,
              den |-> Pow10(nFrac)]

\* ------------------------------------------- analyzeImage, lines 194-201
Disclosure(confidence, original, statement) ==
    <<"**Low Confidence (">> \o confidence \o <<")**: Initial finding '", original,
      "'. Requires review. ">> \o statement

belowThresholdInclusive(v) == ~v.nan /\ v.num <= CONFIDENCE_THRESHOLD * v.den
belowThreshold(v) == ~v.nan /\ v.num < CONFIDENCE_THRESHOLD * v.den

confidenceCheck(analysisResult) ==
    IF belowThreshold(parseFloat(analysisResult.confidence))
    THEN [analysisResult EXCEPT
            !.diagnosis = "Requires Further Review",
            !.uncertaintyStatement =
                Disclosure(analysisResult.confidence, analysisResult.diagnosis, @)]
    ELSE analysisResult

\* ------------------------------------------------ the remote capability
Ok(v) == [ok |-> TRUE, value |-> v, error |-> None]
Throw(e) == [ok |-> FALSE, value |-> None, error |-> e]

\* the image a generation call answers with: the heatmap follows its prompt
PayloadOf(kind, refinementFeedback) ==
    CASE kind = "segmentation" -> "SEG"
      [] kind = "segmentationUncertainty" -> "UNC"
      [] OTHER -> IF Truthy(refinementFeedback) THEN "HEAT-refined" ELSE "HEAT"

ImageResponse(data) == [data |-> data]
Analysis(diagnosis, confidence, statement, processedId) ==
    [diagnosis |-> diagnosis, confidence |-> confidence,
     uncertaintyStatement |-> statement, processedId |-> processedId]
JsonText(value) == [form |-> "json", value |-> Some(value)]
EmptyText == [form |-> "empty", value |-> None]
GarbageText == [form |-> "garbage", value |-> None]
ClassResponse(text) == [text |-> text]

HighConfidence == <<"8", "5", "%">>
LowConfidence == <<"6", "5", "%">>

NominalResponse(kind, debugId, refinementFeedback) ==
    IF kind = "classification"
    THEN ClassResponse(JsonText(Analysis("CNV", HighConfidence, <<"u">>, debugId)))
    ELSE ImageResponse(PayloadOf(kind, refinementFeedback))

OddResponses(kind, debugId) ==
    IF kind = "classification"
    THEN {ClassResponse(EmptyText), ClassResponse(GarbageText),
          ClassResponse(JsonText(Analysis("DME", LowConfidence, <<"u">>, debugId)))}
         \cup {ClassResponse(JsonText(Analysis("CNV", HighConfidence, <<"u">>, pid))) :
                  pid \in {Undefined, "", ForeignId}}
    ELSE {ImageResponse(Undefined)}

\* the analyses the classification call can answer with, and what lines 194-201
\* make of each of them
RemoteAnalyses ==
    {Analysis("CNV", HighConfidence, <<"u">>, pid) :
        pid \in ItemIds \cup {Undefined, "", ForeignId}}
        \cup {Analysis("DME", LowConfidence, <<"u">>, pid) : pid \in ItemIds}
confidenceChecked ==
    [analysisResult \in RemoteAnalyses |-> confidenceCheck(analysisResult)]

Persisting == Err("Error", <<"QUOTA", "exceeded">>)
RemoteErrors ==
    {Err("Error", <<"QUOTA", "exceeded">>),
     Err("Error", <<"API key not valid">>),
     Err("AbortError", <<"Aborted">>)}

\* ------------------------------------------------------- analyzeImage
extractWithoutCheck(response, errorContext) == Ok(response.data)

extractImageFromResponse(response, errorContext) ==
    IF Truthy(response.data) THEN Ok(response.data)
    ELSE Throw(Err("Error", <<errorContext, "or received empty image data.">>))

\* lines 182-218: from the join to the return, resp[k] being None for a skipped call
interpret(resp, aborted) ==
    LET text == The(resp["classification"]).text
        heat == extractImageFromResponse(The(resp["heatmap"]), "Heatmap generation failed")
        seg == extractImageFromResponse(The(resp["segmentation"]), "Segmentation failed")
        unc == extractImageFromResponse(The(resp["segmentationUncertainty"]),
                                        "Uncertainty map failed")
        analysis == confidenceChecked[The(text.value)]
    IN  IF aborted THEN Throw(CancelError)
        ELSE IF text.form = "empty"
            THEN Throw(Err("Error", <<"Empty classification response.">>))
        ELSE IF text.form = "garbage"
            THEN Throw(Err("Error", <<"Invalid JSON response from AI.">>))
        ELSE IF ~heat.ok THEN heat
        ELSE IF resp["segmentation"] = None \/ resp["segmentationUncertainty"] = None
            THEN Ok([analysis |-> analysis, segmentedImageBase64 |-> Undefined,
                     heatmapImageBase64 |-> heat.value,
                     segmentationUncertaintyMapBase64 |-> Undefined])
        ELSE IF ~seg.ok THEN seg
        ELSE IF ~unc.ok THEN unc
        ELSE Ok([analysis |-> analysis, segmentedImageBase64 |-> seg.value,
                 heatmapImageBase64 |-> heat.value,
                 segmentationUncertaintyMapBase64 |-> unc.value])

\* the catch of lines 220-223: every failure leaves as new Error(parseApiError(err))
rethrow(outcome) ==
    IF outcome.ok THEN outcome ELSE Throw(Err("Error", parseApiError(outcome.error)))

\* Promise.all over the four sub-calls of one invocation: "pending" while none has
\* failed and some are unsettled, else the outcome of analyzeImage
Failed(cs) == {k \in Kinds : cs[k].st = "failed"}
joined(cs, aborted) ==
    IF Failed(cs) # {}
    THEN [state |-> "settled",
          outcome |-> rethrow(Throw(The(cs[CHOOSE k \in Failed(cs) : TRUE].out)))]
    ELSE IF \A k \in Kinds : cs[k].st \in {"ok", "skipped"}
    THEN [state |-> "settled",
          outcome |-> rethrow(interpret([k \in Kinds |-> cs[k].out], aborted))]
    ELSE [state |-> "pending", outcome |-> Throw(None)]

dispatchAllFour(refinementFeedback, aborted) ==
    [k \in Kinds |-> retryWithBackoff(DefaultRetries, DefaultDelay, aborted)]

\* the four promises of lines 91-176, created in one synchronous step
dispatch(refinementFeedback, aborted) ==
    [k \in Kinds |->
        IF Truthy(refinementFeedback) /\ k \in {"segmentation", "segmentationUncertainty"}
        THEN Skipped
        ELSE retryWithBackoff(DefaultRetries, DefaultDelay, aborted)]

\* what is left of an invocation once analyzeImage has returned or thrown: the
\* sub-calls still in flight or in a backoff wait go on by themselves
leftover(cs) ==
    [k \in Kinds |-> IF cs[k].st \in {"inflight", "backoff"} THEN cs[k] ELSE Over]

\* ------------------------------------------------------------ the state
IdleRun == [st |-> "idle", candidates |-> <<>>, idx |-> 0, pc |-> "-", aborted |-> FALSE]
IdleRef == [st |-> "idle", id |-> Undefined, imageToRefine |-> None,
            feedback |-> Undefined, pc |-> "-"]
DoneRef(ref) == [ref EXCEPT !.st = "done", !.pc = "-"]
NoProbe == [fn |-> "none"]

Inv(r, i) == <<"run", r, i>>
RefInv(n) == <<"ref", n, 0>>
InvIds == {Inv(r, i) : r \in Runs, i \in 1..MaxItems} \cup {RefInv(n) : n \in Refs}

Feedbacks == {"focus on the fluid"}

NewImage(n) ==
    [id |-> IdNames[n], file |-> FileNames[n], status |-> "pending",
     mappingStatus |-> "unverified", result |-> None, error |-> None,
     segmentedImageUrl |-> None, heatmapImageUrl |-> None,
     segmentationUncertaintyMapUrl |-> None]

DataUrl(base64) == Some(<<"data:image/jpeg;base64,", base64>>)

MapImages(F(_)) == [i \in DOMAIN images |-> F(images[i])]
Filter(status) == SelectSeq(images, LAMBDA img : img.status = status)
NextRun == 1 + Cardinality({r \in Runs : runs[r].st # "idle"})
NextRef == 1 + Cardinality({n \in Refs : refs[n].st # "idle"})

SignalOfAnyRun(k) == \E r \in Runs : runs[r].aborted

\* the signal handed to analyzeImage: the run's controller, none for a refinement
SignalAborted(k) == k[1] = "run" /\ runs[k[2]].aborted
Awaiting(k) ==
    IF k[1] = "run"
    THEN runs[k[2]].st = "loop" /\ runs[k[2]].idx = k[3] /\ runs[k[2]].pc = "join"
    ELSE refs[k[2]].pc = "join"
DebugIdOf(k) == IF k[1] = "run" THEN runs[k[2]].candidates[k[3]].id ELSE refs[k[2]].id
FeedbackOf(k) == IF k[1] = "run" THEN Undefined ELSE refs[k[2]].feedback

\* the application as mounted: App.tsx lines 13-16, nothing started
Mounted ==
    /\ images = <<>>
    /\ isAnalyzing = FALSE
    /\ abortControllerRef = 0
    /\ runs = [r \in Runs |-> IdleRun]
    /\ refs = [n \in Refs |-> IdleRef]
    /\ calls = [k \in InvIds |-> [kind \in Kinds |-> Idle]]
    /\ uuids = 0
    /\ anomalies = 0
    /\ deletes = 0

Init ==
    /\ Mounted
    /\ apiKey \in BOOLEAN
    /\ probe = NoProbe

\* ------------------------------------------------------- the item handlers
\* lines 28-45: n image files are added to the collection
upload(n) ==
    /\ images' = images \o [j \in 1..n |-> NewImage(uuids + j)]
    /\ uuids' = uuids + n
    /\ UNCHANGED <<isAnalyzing, abortControllerRef, runs, refs, calls, anomalies, env>>

handleImageUpload(n) == uuids + n <= NumItems /\ upload(n)

handleDeleteImage(id) ==
    /\ \E i \in DOMAIN images : images[i].id = id
    /\ deletes < MaxDeletes
    /\ deletes' = deletes + 1
    /\ images' = SelectSeq(images, LAMBDA img : img.id # id)
    /\ UNCHANGED <<isAnalyzing, abortControllerRef, runs, refs, calls, uuids, anomalies,
                   apiKey, probe>>

\* ------------------------------------------------------- runAnalysisLoop
exitLoopKeepsFlag(r) ==
    /\ runs' = [runs EXCEPT ![r].st = "done", ![r].pc = "-"]
    /\ isAnalyzing' = isAnalyzing
    /\ abortControllerRef' = 0

\* lines 110-111, reached by falling out of the for loop or by break
exitLoop(r) ==
    /\ runs' = [runs EXCEPT ![r].st = "done", ![r].pc = "-"]
    /\ isAnalyzing' = FALSE
    /\ abortControllerRef' = 0

nextIterationUnchecked(r) ==
    IF runs[r].idx < Len(runs[r].candidates)
    THEN /\ runs' = [runs EXCEPT ![r].idx = @ + 1, ![r].pc = "debugRequest"]
         /\ UNCHANGED <<isAnalyzing, abortControllerRef>>
    ELSE exitLoop(r)

\* the end of the loop body: the next candidate, its abort check and debugRequest
nextIteration(r) ==
    IF runs[r].idx < Len(runs[r].candidates) /\ ~runs[r].aborted
    THEN /\ runs' = [runs EXCEPT ![r].idx = @ + 1, ![r].pc = "debugRequest"]
         /\ UNCHANGED <<isAnalyzing, abortControllerRef>>
    ELSE exitLoop(r)

failEveryLoading(id, message) ==
    MapImages(LAMBDA img :
        IF img.id = id \/ img.status = "loading"
        THEN [img EXCEPT !.status = "error", !.error = Some(message)] ELSE img)

markErrorWithoutMessage(id, message) ==
    MapImages(LAMBDA img : IF img.id = id THEN [img EXCEPT !.status = "error"] ELSE img)

\* lines 105-107: the item of a failed candidate is marked Error with the message
markError(id, message) ==
    MapImages(LAMBDA img :
        IF img.id = id THEN [img EXCEPT !.status = "error", !.error = Some(message)] ELSE img)

\* lines 87-96: the item a successful candidate is replaced by
analyzedItem(img, result, mappingStatus) ==
    [img EXCEPT
        !.status = "success",
        !.mappingStatus = mappingStatus,
        !.result = Some(result.analysis),
        !.segmentedImageUrl =
            IF Truthy(result.segmentedImageBase64)
            THEN DataUrl(result.segmentedImageBase64) ELSE @,
        !.heatmapImageUrl = DataUrl(result.heatmapImageBase64),
        !.segmentationUncertaintyMapUrl =
            IF Truthy(result.segmentationUncertaintyMapBase64)
            THEN DataUrl(result.segmentationUncertaintyMapBase64) ELSE @,
        !.error = None]

onAnalyzedBreakOnError(r, outcome) ==
    LET image == runs[r].candidates[runs[r].idx] IN
    IF outcome.ok
    THEN LET result == outcome.value
             isVerified == verifyMapping(image, result.analysis.processedId, Undefined)
         IN  /\ images' = MapImages(LAMBDA img :
                    IF img.id # image.id THEN img
                    ELSE analyzedItem(img, result,
                                      IF isVerified THEN "verified" ELSE "mismatch"))
             /\ nextIteration(r)
    ELSE /\ images' = IF outcome.error.message = RequestCancelled THEN images
                      ELSE markError(image.id, outcome.error.message)
         /\ exitLoop(r)

\* lines 73-108: what the loop does with the outcome of analyzeImage
onAnalyzed(r, outcome) ==
    LET image == runs[r].candidates[runs[r].idx] IN
    IF outcome.ok
    THEN LET result == outcome.value
             isVerified == verifyMapping(image, result.analysis.processedId, Undefined)
         IN  /\ images' = MapImages(LAMBDA img :
                    IF img.id # image.id THEN img
                    ELSE analyzedItem(img, result,
                                      IF isVerified THEN "verified" ELSE "mismatch"))
             /\ nextIteration(r)
    ELSE IF outcome.error.message = RequestCancelled
    THEN /\ images' = images
         /\ exitLoop(r)
    ELSE /\ images' = markError(image.id, outcome.error.message)
         /\ nextIteration(r)

\* what the loop reads of a candidate: its id and its file
Snapshot(candidates) ==
    [c \in DOMAIN candidates |-> [id |-> candidates[c].id, file |-> candidates[c].file]]

optimisticUpdateKeepsError(img) ==
    [img EXCEPT !.status = "loading", !.mappingStatus = "unverified"]

optimisticUpdateKeepsMapping(img) == [img EXCEPT !.status = "loading", !.error = None]

\* lines 58-61: what a candidate of a starting run is replaced by
optimisticUpdate(img) ==
    [img EXCEPT !.status = "loading", !.error = None, !.mappingStatus = "unverified"]

\* lines 48-64: the synchronous head of runAnalysisLoop
runAnalysisLoop(candidates) ==
    LET r == NextRun IN
    /\ r <= MaxRuns
    /\ runs' = [x \in Runs |->
            IF x = r
            THEN [st |-> "loop", candidates |-> Snapshot(candidates), idx |-> 1,
                  pc |-> "debugRequest", aborted |-> FALSE]
            ELSE IF x = abortControllerRef THEN [runs[x] EXCEPT !.aborted = TRUE]
            ELSE runs[x]]
    /\ abortControllerRef' = r
    /\ isAnalyzing' = TRUE
    /\ images' = MapImages(LAMBDA img :
            IF \E c \in DOMAIN candidates : candidates[c].id = img.id
            THEN optimisticUpdate(img) ELSE img)
    /\ UNCHANGED <<refs, calls, uuids, anomalies, env>>

handleAnalyzeAll ==
    /\ Len(Filter("pending")) > 0
    /\ runAnalysisLoop(Filter("pending"))

handleRetryFailed ==
    /\ Len(Filter("error")) > 0
    /\ runAnalysisLoop(Filter("error"))

\* --------------------------------------------------- handleRefineAnalysis
refinedItemWithMaps(img, result) ==
    [img EXCEPT
        !.status = "success",
        !.result = Some(result.analysis),
        !.segmentedImageUrl =
            IF Truthy(result.segmentedImageBase64)
            THEN DataUrl(result.segmentedImageBase64) ELSE None,
        !.heatmapImageUrl = DataUrl(result.heatmapImageBase64),
        !.segmentationUncertaintyMapUrl =
            IF Truthy(result.segmentationUncertaintyMapBase64)
            THEN DataUrl(result.segmentationUncertaintyMapBase64) ELSE None,
        !.error = None]

\* lines 143-149: the item a successful refinement is replaced by
refinedItem(img, result) ==
    [img EXCEPT
        !.status = "success",
        !.result = Some(result.analysis),
        !.heatmapImageUrl = DataUrl(result.heatmapImageBase64),
        !.error = None]

\* lines 141-154: what the handler does with the outcome of analyzeImage
onRefined(n, outcome) ==
    /\ images' =
        IF outcome.ok
        THEN MapImages(LAMBDA img :
                IF img.id # refs[n].id THEN img ELSE refinedItem(img, outcome.value))
        ELSE markError(refs[n].id, outcome.error.message)
    /\ refs' = [refs EXCEPT ![n] = DoneRef(refs[n])]

MissingKey == Err("Error", <<"API Key Not Found.">>)

AnyCard(img) == TRUE
\* the card of an item shows the refinement form
Refinable(img) == img.status = "success" /\ IsSome(img.result)

\* lines 128-139 with analyzeImage up to its first suspension (lines 70-82)
handleRefineAnalysis(id, feedback) ==
    LET n == NextRef IN
    /\ n <= MaxRefines
    /\ \E i \in DOMAIN images : images[i].id = id /\ Refinable(images[i])
    /\ LET imageToRefine == images[CHOOSE i \in DOMAIN images : images[i].id = id] IN
        IF apiKey
        THEN /\ images' = MapImages(LAMBDA img :
                    IF img.id = id THEN [img EXCEPT !.status = "loading", !.error = None]
                    ELSE img)
             /\ refs' = [refs EXCEPT ![n] =
                    [st |-> "active", id |-> id, imageToRefine |-> Some(imageToRefine),
                     feedback |-> feedback, pc |-> "fileToGenerativePart"]]
        ELSE /\ images' = markError(id, MissingKey.message)
             /\ refs' = [refs EXCEPT ![n] =
                    DoneRef([st |-> "active", id |-> id,
                             imageToRefine |-> Some(imageToRefine),
                             feedback |-> feedback, pc |-> "-"])]
    /\ UNCHANGED <<isAnalyzing, abortControllerRef, runs, calls, uuids, anomalies, env>>

\* ------------------------------------------- analyzeImage, step by step
\* the caller's continuation once analyzeImage has returned or thrown
continuation(k, outcome) ==
    IF k[1] = "run"
    THEN onAnalyzed(k[2], outcome) /\ UNCHANGED refs
    ELSE onRefined(k[2], outcome) /\ UNCHANGED <<runs, isAnalyzing, abortControllerRef>>

\* invocation k has its sub-calls in state cs after an event: the join fires or not
settle(k, cs, awaiting) ==
    \E now \in {cs} : \E j \in {joined(now, SignalAborted(k))} :
        IF awaiting /\ j.state = "settled"
        THEN /\ calls' = [calls EXCEPT ![k] = leftover(now)]
             /\ continuation(k, j.outcome)
        ELSE /\ calls' = [calls EXCEPT ![k] = IF awaiting THEN now ELSE leftover(now)]
             /\ UNCHANGED orch

\* debugRequest resolves; analyzeImage runs lines 70-82 up to fileToGenerativePart
DebugRequestDone(r) ==
    /\ runs[r].st = "loop" /\ runs[r].pc = "debugRequest"
    /\ IF ~apiKey THEN onAnalyzed(r, Throw(MissingKey))
       ELSE IF runs[r].aborted THEN onAnalyzed(r, Throw(CancelError))
       ELSE /\ runs' = [runs EXCEPT ![r].pc = "fileToGenerativePart"]
            /\ UNCHANGED <<images, isAnalyzing, abortControllerRef>>
    /\ UNCHANGED <<refs, calls, uuids, anomalies, env>>

\* fileToGenerativePart resolves in a batch run; the four promises are created (lines 85-180)
EncodeDone(r) ==
    /\ runs[r].st = "loop" /\ runs[r].pc = "fileToGenerativePart"
    /\ \E cs \in {dispatch(Undefined, runs[r].aborted)} :
       \E j \in {joined(cs, runs[r].aborted)} :
        /\ calls' = [calls EXCEPT ![Inv(r, runs[r].idx)] = leftover(cs)]
        /\ IF j.state = "settled" THEN onAnalyzed(r, j.outcome)
           ELSE /\ runs' = [runs EXCEPT ![r].pc = "join"]
                /\ UNCHANGED <<images, isAnalyzing, abortControllerRef>>
    /\ UNCHANGED <<refs, uuids, anomalies, env>>

\* the same for a refinement, which hands no signal to analyzeImage
RefineEncodeDone(n) ==
    /\ refs[n].st = "active" /\ refs[n].pc = "fileToGenerativePart"
    /\ calls' = [calls EXCEPT ![RefInv(n)] = dispatch(refs[n].feedback, FALSE)]
    /\ refs' = [refs EXCEPT ![n].pc = "join"]
    /\ UNCHANGED <<images, isAnalyzing, abortControllerRef, runs, uuids, anomalies, env>>

\* The remote capability answers a sub-call in flight.  The nominal answers to one
\* invocation arrive in the order of its calls (which of them is late makes no
\* difference to the join); an odd answer or a failure may hit any call in flight.
DispatchOrder == <<"segmentation", "segmentationUncertainty", "classification", "heatmap">>
Position(kind) == CHOOSE p \in DOMAIN DispatchOrder : DispatchOrder[p] = kind
InTurn(k, kind) ==
    \A p \in 1..(Position(kind) - 1) : calls[k][DispatchOrder[p]].st # "inflight"

RemoteReturns(k, kind) ==
    /\ calls[k][kind].st = "inflight"
    /\ \E odd \in BOOLEAN :
        /\ odd => anomalies < MaxAnomalies
        /\ ~odd => InTurn(k, kind)
        /\ anomalies' = IF odd THEN anomalies + 1 ELSE anomalies
        /\ \E response \in IF odd THEN OddResponses(kind, DebugIdOf(k))
                                    ELSE {NominalResponse(kind, DebugIdOf(k), FeedbackOf(k))} :
            settle(k, [calls[k] EXCEPT ![kind] = SubCall("ok", 0, 0, Some(response))],
                   Awaiting(k))
    /\ UNCHANGED <<uuids, env>>

\* the remote capability fails a sub-call in flight: the catch of retryWithBackoff;
\* an attempt made after a backoff wait may fail as the one before it did
RemoteFails(k, kind) ==
    /\ calls[k][kind].st = "inflight"
    /\ \E error \in RemoteErrors :
        /\ IF calls[k][kind].retries < DefaultRetries /\ error = Persisting
           THEN anomalies' = anomalies
           ELSE anomalies < MaxAnomalies /\ anomalies' = anomalies + 1
        /\ settle(k, [calls[k] EXCEPT ![kind] =
                        catchFailure(calls[k][kind].retries, calls[k][kind].delay, error)],
               Awaiting(k))
    /\ UNCHANGED <<uuids, env>>

\* the backoff timer of a sub-call fires: the next attempt
TimerFires(k, kind) ==
    /\ calls[k][kind].st = "backoff"
    /\ settle(k, [calls[k] EXCEPT ![kind] = afterDelay(calls[k][kind], SignalAborted(k))],
              Awaiting(k))
    /\ UNCHANGED <<uuids, anomalies, env>>

Next ==
    \/ \E n \in 1..NumItems : handleImageUpload(n)
    \/ \E id \in ItemIds : handleDeleteImage(id)
    \/ handleAnalyzeAll
    \/ handleRetryFailed
    \/ \E id \in ItemIds, feedback \in Feedbacks : handleRefineAnalysis(id, feedback)
    \/ \E r \in Runs : DebugRequestDone(r)
    \/ \E r \in Runs : EncodeDone(r)
    \/ \E n \in Refs : RefineEncodeDone(n)
    \/ \E k \in InvIds, kind \in Kinds : RemoteReturns(k, kind)
    \/ \E k \in InvIds, kind \in Kinds : RemoteFails(k, kind)
    \/ \E k \in InvIds, kind \in Kinds : TimerFires(k, kind)

Spec == Init /\ [][Next]_vars

\* ------------------------------------------------ the session, scheduled
\* Every promise that can settle does: debugRequest and the encoding resolve, a
\* timer that was set fires, and a call handed to the remote capability returns or
\* fails.  The handlers of the user are under no such obligation.
Resolves ==
    \/ \E r \in Runs : DebugRequestDone(r)
    \/ \E r \in Runs : EncodeDone(r)
RemoteAnswers ==
    \E k \in InvIds, kind \in Kinds : RemoteReturns(k, kind) \/ RemoteFails(k, kind)
Timers == \E k \in InvIds, kind \in Kinds : TimerFires(k, kind)

\* the handlers that bear on a batch run: upload, deletion, the two batch starts
NextLive ==
    \/ \E n \in 1..NumItems : handleImageUpload(n)
    \/ \E id \in ItemIds : handleDeleteImage(id)
    \/ handleAnalyzeAll
    \/ handleRetryFailed
    \/ \E r \in Runs : DebugRequestDone(r)
    \/ \E r \in Runs : EncodeDone(r)
    \/ \E k \in InvIds, kind \in Kinds : RemoteReturns(k, kind)
    \/ \E k \in InvIds, kind \in Kinds : RemoteFails(k, kind)
    \/ \E k \in InvIds, kind \in Kinds : TimerFires(k, kind)

SpecLive ==
    Init /\ [][NextLive]_vars
         /\ WF_vars(Resolves) /\ WF_vars(RemoteAnswers) /\ WF_vars(Timers)

\* ------------------------------------------------ a session of batch runs
\* uploads, analyze-all, retry-failed and the remote events, with one more file
UploadMore(n) == uuids + n <= MaxItems /\ upload(n)

NextBatch ==
    \/ \E n \in 1..MaxItems : UploadMore(n)
    \/ handleAnalyzeAll
    \/ handleRetryFailed
    \/ \E r \in Runs : DebugRequestDone(r)
    \/ \E r \in Runs : EncodeDone(r)
    \/ \E k \in InvIds, kind \in Kinds : RemoteReturns(k, kind)
    \/ \E k \in InvIds, kind \in Kinds : RemoteFails(k, kind)
    \/ \E k \in InvIds, kind \in Kinds : TimerFires(k, kind)

SpecBatch == Init /\ [][NextBatch]_vars

\* ------------------------------------------------ verifyMapping on its own
\* what a backend may echo: nothing, an empty string, an id or hash of the
\* session, an id or hash of something else
EchoedIds == ItemIds \cup {Undefined, "", ForeignId}
EchoedHashes == {HashNames[n] : n \in 1..NumItems} \cup {Undefined, "", "sha9"}

InitVerify ==
    /\ Mounted
    /\ apiKey = TRUE
    /\ \E n \in 1..NumItems, m \in 1..NumItems, resultId \in EchoedIds,
          backendHash \in EchoedHashes :
        probe = [fn |-> "verifyMapping", pc |-> "call",
                 image |-> [id |-> IdNames[n], file |-> FileNames[m]],
                 resultId |-> resultId, backendHash |-> backendHash,
                 returned |-> None]

\* the promise of verifyMapping resolves
VerifyReturns ==
    /\ probe.fn = "verifyMapping" /\ probe.pc = "call"
    /\ probe' = [probe EXCEPT
            !.pc = "return",
            !.returned = Some(verifyMapping(probe.image, probe.resultId, probe.backendHash))]
    /\ UNCHANGED app

NextVerify == VerifyReturns
SpecVerify == InitVerify /\ [][NextVerify]_vars

\* ------------------------------------------- the confidence gate on its own
ConfidenceChars == {"0", "5", "6", "7", "8", "9", ".", "%", " ", "-"}
ConfidenceTexts == UNION {[1..n -> ConfidenceChars] : n \in 0..MaxLen}
Diagnoses == {"CNV", "NORMAL"}

InitGate ==
    /\ Mounted
    /\ apiKey = TRUE
    /\ \E confidence \in ConfidenceTexts, diagnosis \in Diagnoses :
        probe = [fn |-> "confidenceCheck", pc |-> "call",
                 analysisResult |-> Analysis(diagnosis, confidence, <<"u">>, IdNames[1]),
                 returned |-> None]

\* lines 194-201 of analyzeImage applied to the parsed classification
GateReturns ==
    /\ probe.fn = "confidenceCheck" /\ probe.pc = "call"
    /\ probe' = [probe EXCEPT
            !.pc = "return",
            !.returned = Some(confidenceCheck(probe.analysisResult))]
    /\ UNCHANGED app

NextGate == GateReturns
SpecGate == InitGate /\ [][NextGate]_vars

\* --------------------------------------------- retryWithBackoff on its own
\* the failures the operation is made to throw
OperationErrors ==
    {Err("Error", <<"QUOTA", "exceeded">>),
     Err("Error", <<"Rate Limit">>),
     Err("Error", <<"500 internal", "Server Error">>),
     Err("Error", <<"Unavailable">>),
     Err("Error", <<"API key not valid">>),
     Err("Error", <<"Bad Request">>),
     Err("Error", <<"Blocked", "SAFETY">>),
     Err("AbortError", <<"Aborted">>),
     Err("AbortError", <<"UNAVAILABLE">>)}

InitialDelays == {1, DefaultDelay}

\* probe.sc is the chain; invocations counts the calls of fn, waits lists the
\* timers that have elapsed, errs lists what the catch block has caught
InitRetry ==
    /\ Mounted
    /\ apiKey = TRUE
    /\ \E r \in 0..MaxBudget, d \in InitialDelays :
        probe = [fn |-> "retryWithBackoff", retries |-> r, delay |-> d, aborted |-> FALSE,
                 sc |-> Idle, invocations |-> 0, waits |-> <<>>, errs |-> <<>>]

\* what one entry of retryWithBackoff adds to the record: fn is called once; when
\* makeRequest throws at once the catch block has caught the cancellation error
entered(p, sc) ==
    [p EXCEPT !.sc = sc,
              !.invocations = @ + 1,
              !.errs = IF sc.st = "inflight" THEN @ ELSE Append(@, CancelError)]

\* line 47-50: retryWithBackoff(fn, retries, delay) is called
RetryCalled ==
    /\ probe.fn = "retryWithBackoff" /\ probe.sc.st = "idle"
    /\ probe' = entered(probe, retryWithBackoff(probe.retries, probe.delay, probe.aborted))
    /\ UNCHANGED app

\* the operation fulfils: line 50 returns its value
OperationReturns ==
    /\ probe.fn = "retryWithBackoff" /\ probe.sc.st = "inflight"
    /\ probe' = [probe EXCEPT !.sc = SubCall("ok", 0, 0, Some(ImageResponse("SEG")))]
    /\ UNCHANGED app

\* the operation rejects: lines 51-59
OperationFails(error) ==
    /\ probe.fn = "retryWithBackoff" /\ probe.sc.st = "inflight"
    /\ probe' = [probe EXCEPT
            !.sc = catchFailure(probe.sc.retries, probe.sc.delay, error),
            !.errs = Append(@, error)]
    /\ UNCHANGED app

\* the timer of line 56 elapses: line 57
DelayElapses ==
    /\ probe.fn = "retryWithBackoff" /\ probe.sc.st = "backoff"
    /\ probe' = entered([probe EXCEPT !.waits = Append(@, probe.sc.delay)],
                        afterDelay(probe.sc, probe.aborted))
    /\ UNCHANGED app

\* the caller's token is signalled while the chain is unsettled
SignalAborts ==
    /\ probe.fn = "retryWithBackoff" /\ ~probe.aborted
    /\ probe.sc.st \in {"idle", "inflight", "backoff"}
    /\ probe' = [probe EXCEPT !.aborted = TRUE]
    /\ UNCHANGED app

NextRetry ==
    \/ RetryCalled
    \/ OperationReturns
    \/ \E error \in OperationErrors : OperationFails(error)
    \/ DelayElapses
    \/ SignalAborts

SpecRetry == InitRetry /\ [][NextRetry]_vars

\* ----------------------------------- batch runs next to one refinement
\* the session of batch runs with refinements of the items it has analysed
RefineOnce(id, feedback) == NextRef <= MaxMixedRefines /\ handleRefineAnalysis(id, feedback)

NextMixed ==
    \/ \E n \in 1..MaxItems : UploadMore(n)
    \/ handleAnalyzeAll
    \/ \E id \in ItemIds, feedback \in Feedbacks : RefineOnce(id, feedback)
    \/ \E r \in Runs : DebugRequestDone(r)
    \/ \E r \in Runs : EncodeDone(r)
    \/ \E n \in Refs : RefineEncodeDone(n)
    \/ \E k \in InvIds, kind \in Kinds : RemoteReturns(k, kind)
    \/ \E k \in InvIds, kind \in Kinds : RemoteFails(k, kind)
    \/ \E k \in InvIds, kind \in Kinds : TimerFires(k, kind)

SpecMixed == Init /\ [][NextMixed]_vars

\* ------------------------------------ analyzeImage from the join on, on its own
\* what the four promises may have fulfilled with when the join returns
ImageAnswers(kind, refinementFeedback) ==
    {ImageResponse(PayloadOf(kind, refinementFeedback)), ImageResponse(Undefined),
     ImageResponse("")}
ClassAnswers ==
    {NominalResponse("classification", IdNames[1], Undefined)}
        \cup OddResponses("classification", IdNames[1])
JoinedAnswers(refinementFeedback) ==
    {resp \in [Kinds -> {None} \cup {Some(a) : a \in ClassAnswers
                            \cup ImageAnswers("segmentation", refinementFeedback)
                            \cup ImageAnswers("segmentationUncertainty", refinementFeedback)
                            \cup ImageAnswers("heatmap", refinementFeedback)}] :
        /\ IsSome(resp["classification"]) /\ The(resp["classification"]) \in ClassAnswers
        /\ IsSome(resp["heatmap"])
        /\ The(resp["heatmap"]) \in ImageAnswers("heatmap", refinementFeedback)
        /\ \A kind \in {"segmentation", "segmentationUncertainty"} :
                IF Truthy(refinementFeedback) THEN resp[kind] = None
                ELSE IsSome(resp[kind])
                     /\ The(resp[kind]) \in ImageAnswers(kind, refinementFeedback)}

InitAnalyze ==
    /\ Mounted
    /\ apiKey = TRUE
    /\ \E refinementFeedback \in {Undefined} \cup Feedbacks, aborted \in BOOLEAN :
        \E resp \in JoinedAnswers(refinementFeedback) :
            probe = [fn |-> "analyzeImage", pc |-> "join",
                     refinementFeedback |-> refinementFeedback, aborted |-> aborted,
                     resp |-> resp, returned |-> None]

\* lines 182-223 of analyzeImage applied to the four answers
AnalyzeReturns ==
    /\ probe.fn = "analyzeImage" /\ probe.pc = "join"
    /\ probe' = [probe EXCEPT
            !.pc = "return",
            !.returned = Some(rethrow(interpret(probe.resp, probe.aborted)))]
    /\ UNCHANGED app

NextAnalyze == AnalyzeReturns
SpecAnalyze == InitAnalyze /\ [][NextAnalyze]_vars

\* ================================================================ claims
Active(r) == runs[r].st = "loop"
Starts(r) == runs[r].st = "idle" /\ runs'[r].st = "loop"
\* run r receives the outcome of analyzeImage for its current candidate in this step
Settles(r) == Active(r) /\ runs[r].pc = "join" /\ runs'[r].pc # "join"
Unsettled(k) == {kind \in Kinds : calls[k][kind].st \in {"inflight", "backoff"}}
IsCandidate(r, id) == \E c \in DOMAIN runs'[r].candidates : runs'[r].candidates[c].id = id

\* C1: a step that starts a batch run while a run x is executing its loop signals
\* x's token; every item x had resolved to Success or Error (and that the new run
\* does not take as a candidate of its own) keeps that status; every candidate x
\* had not reached and that is Loading stays Loading.
C1_StartCancelsPrior ==
    [][\A r \in Runs, x \in Runs :
        (Starts(r) /\ Active(x)) =>
            /\ runs'[x].aborted
            /\ \A c \in DOMAIN runs[x].candidates : \A p \in DOMAIN images :
                  images[p].id = runs[x].candidates[c].id =>
                    /\ (c < runs[x].idx /\ images[p].status \in {"success", "error"}
                          /\ ~IsCandidate(r, images[p].id))
                        => images'[p].status = images[p].status
                    /\ (c > runs[x].idx /\ images[p].status = "loading")
                        => images'[p].status = "loading"]_vars

\* C2: at most one run whose token is not signalled executes its loop, and the
\* current-run slot holds the most recently started run while that run executes.
C2_SingleFlight ==
    /\ Cardinality({r \in Runs : Active(r) /\ ~runs[r].aborted}) <= 1
    /\ \A r \in Runs : (Active(r) /\ r = NextRun - 1) => abortControllerRef = r

\* C3: the sub-calls in flight or in a backoff wait on behalf of a run belong to one
\* candidate and are at most four; none of candidate i is left once the run has
\* gone on to a later candidate.
C3_OneCandidateAtATime ==
    \A r \in Runs :
        /\ \A i, j \in 1..MaxItems :
              (Unsettled(Inv(r, i)) # {} /\ Unsettled(Inv(r, j)) # {}) => i = j
        /\ \A i \in 1..MaxItems : Cardinality(Unsettled(Inv(r, i))) <= 4
        /\ \A i \in 1..MaxItems : (Active(r) /\ i < runs[r].idx) => Unsettled(Inv(r, i)) = {}

\* C4: in a step taken with the token of an invocation signalled, no sub-call of that
\* invocation is handed to the remote capability: none gets in flight, and one in
\* flight is not invoked again.
C4_NoDispatchAfterCancel ==
    [][\A k \in InvIds, kind \in Kinds :
        (SignalAborted(k) /\ calls'[k][kind].st = "inflight")
            => calls'[k][kind] = calls[k][kind]]_vars

\* C4 witness: a cancelled run has left its loop with the candidate still Loading
\* while other sub-calls of the candidate are in flight: the join was rejected by
\* the cancellation check of a re-dispatch after a backoff wait.
C4_Witness ==
    \E r \in Runs :
        /\ runs[r].aborted /\ runs[r].st = "done" /\ runs[r].idx >= 1
        /\ \A n \in Refs : refs[n].st = "idle"
        /\ \E p \in DOMAIN images :
              images[p].id = runs[r].candidates[runs[r].idx].id /\ images[p].status = "loading"
        /\ \E kind \in Kinds : calls[Inv(r, runs[r].idx)][kind].st = "inflight"
        /\ \E kind \in Kinds : calls[Inv(r, runs[r].idx)][kind].st = "over"

\* an optional argument is present when it is not undefined
Present(x) == x # Undefined

\* C5: verifyMapping returns false exactly when the echoed id is present and differs
\* from the item id, or the echoed hash is present and differs from the fingerprint
\* recomputed from the item's file.
C5_FailsExactlyOnMismatch ==
    (probe.fn = "verifyMapping" /\ probe.pc = "return") =>
        (The(probe.returned) = FALSE) <=>
            \/ Present(probe.resultId) /\ probe.resultId # probe.image.id
            \/ Present(probe.backendHash)
                /\ probe.backendHash # generateFileHash(probe.image.file)

\* C6: when the analysis of a candidate succeeds the item is Success with the result
\* attached, Verified if the processedId of the result is absent or the item id and
\* Mismatch if it is present and different; a mismatch leaves the loop running.
C6_MappingStatus ==
    [][\A r \in Runs : (Settles(r) /\ ~runs[r].aborted) =>
        \A p \in DOMAIN images' :
            (images'[p].id = runs[r].candidates[runs[r].idx].id
              /\ images'[p].status = "success") =>
                /\ IsSome(images'[p].result)
                /\ LET pid == The(images'[p].result).processedId IN
                    /\ (pid = Undefined \/ pid = images'[p].id)
                        => images'[p].mappingStatus = "verified"
                    /\ (pid # Undefined /\ pid # images'[p].id)
                        => /\ images'[p].mappingStatus = "mismatch"
                           /\ runs[r].idx < Len(runs[r].candidates) => Active(r)']_vars

\* the text `part` occurs in `text` and the text `rest` ends it, after `part`
ContainsThenEndsWith(text, part, rest) ==
    \E i \in 1..(Len(text) - Len(rest)) :
        /\ text[i] = part
        /\ SubSeq(text, Len(text) - Len(rest) + 1, Len(text)) = rest

GateReturned == probe.fn = "confidenceCheck" /\ probe.pc = "return"

\* C7: a confidence text that parses to a number below 70 makes the diagnosis
\* 'Requires Further Review' and the uncertainty statement a text that contains the
\* original diagnosis followed by the original statement; a text that parses to 70
\* or more, or does not parse, leaves the result as it was ("65%" is rewritten,
\* "85%" and "70%" are not).
C7_ConfidenceGate ==
    GateReturned =>
        LET before == probe.analysisResult
            after == The(probe.returned)
            value == parseFloat(before.confidence)
        IN  /\ (~value.nan /\ value.num < 70 * value.den) =>
                /\ after.diagnosis = "Requires Further Review"
                /\ ContainsThenEndsWith(after.uncertaintyStatement, before.diagnosis,
                                        before.uncertaintyStatement)
                /\ after.confidence = before.confidence
                /\ after.processedId = before.processedId
            /\ (value.nan \/ value.num >= 70 * value.den) => after = before
            /\ before.confidence = <<"6", "5", "%">> =>
                    after.diagnosis = "Requires Further Review"
            /\ before.confidence \in {<<"8", "5", "%">>, <<"7", "0", "%">>, <<"7", "0">>,
                                      <<"%", "6", "5">>, <<>>} => after = before

\* C7 witness: the gate has rewritten a result whose confidence was "65%"
C7_Witness ==
    /\ GateReturned
    /\ probe.analysisResult.confidence = <<"6", "5", "%">>
    /\ probe.analysisResult.diagnosis = "CNV"
    /\ The(probe.returned).diagnosis = "Requires Further Review"

RECURSIVE Pow2(_)
Pow2(n) == IF n = 0 THEN 1 ELSE 2 * Pow2(n - 1)

Retrying == probe.fn = "retryWithBackoff"

\* C8: retryWithBackoff with budget r and initial delay d calls the operation at
\* most r+1 times (4 by default); the wait before the k-th call (k >= 2) is
\* d*2^(k-2) (1000, 2000, 4000 by default); every call but the first follows an
\* elapsed wait, and no call is made while a wait is running.
C8_BackoffSchedule ==
    Retrying =>
        /\ probe.invocations <= probe.retries + 1
        /\ (probe.retries = 3 /\ probe.delay = 1000) =>
              /\ probe.invocations <= 4
              /\ \A k \in DOMAIN probe.waits : probe.waits[k] = <<1000, 2000, 4000>>[k]
        /\ \A k \in 2..probe.invocations :
              /\ k - 1 \in DOMAIN probe.waits
              /\ probe.waits[k - 1] = probe.delay * Pow2(k - 2)
        /\ probe.invocations > 0 => Len(probe.waits) = probe.invocations - 1

\* C8 witness: the default budget is used up after waits of 1000, 2000 and 4000
C8_Witness ==
    /\ Retrying
    /\ probe.retries = DefaultRetries /\ probe.delay = DefaultDelay
    /\ probe.invocations = 4
    /\ probe.waits = <<1000, 2000, 4000>>

\* the errors of OperationErrors whose message holds one of the four keywords, in
\* whatever case
TransientErrors ==
    {Err("Error", <<"QUOTA", "exceeded">>),
     Err("Error", <<"Rate Limit">>),
     Err("Error", <<"500 internal", "Server Error">>),
     Err("Error", <<"Unavailable">>),
     Err("AbortError", <<"UNAVAILABLE">>)}
SignalsCancellation(error) == error.name = "AbortError"
AttemptsLeft == probe.retries - (probe.invocations - 1)

\* the step in which the operation fails with `error`
Fails(error) ==
    /\ Retrying /\ probe.sc.st = "inflight"
    /\ probe'.errs = Append(probe.errs, error)

SameButRefined(new, old) ==
    new = [old EXCEPT !.status = new.status, !.result = new.result,
                      !.heatmapImageUrl = new.heatmapImageUrl, !.error = new.error]
RefineStarts(n) == refs[n].st = "idle" /\ refs'[n].st # "idle"
RefineEnds(n) == refs[n].st = "active" /\ refs'[n].st = "done"

\* C10: a refinement that was started on a Success item and succeeds leaves the
\* item as handleRefineAnalysis found it (imageToRefine) but for status, result,
\* heatmap reference and error message: the segmentation reference and the
\* segmentation-uncertainty reference are the ones of before the refinement; no
\* update of the refinement changes another item or the order of the items.
C10_RefineFrame ==
    [][\A n \in Refs :
        /\ (RefineStarts(n) \/ RefineEnds(n)) =>
            /\ DOMAIN images' = DOMAIN images
            /\ \A p \in DOMAIN images :
                  images[p].id # refs'[n].id => images'[p] = images[p]
        /\ (RefineEnds(n) /\ The(refs[n].imageToRefine).status = "success") =>
            \A p \in DOMAIN images' :
                (images'[p].id = refs[n].id /\ images'[p].status = "success") =>
                    /\ SameButRefined(images'[p], The(refs[n].imageToRefine))
                    /\ images'[p].segmentedImageUrl =
                           The(refs[n].imageToRefine).segmentedImageUrl
                    /\ images'[p].segmentationUncertaintyMapUrl =
                           The(refs[n].imageToRefine).segmentationUncertaintyMapUrl]_vars

\* C10 witness: a refinement started on a Success item that carried both
\* segmentation maps has ended, and the item shows the refinement's heatmap.
C10_Witness ==
    \E n \in Refs : \E p \in DOMAIN images :
        /\ refs[n].st = "done"
        /\ images[p].id = refs[n].id
        /\ The(refs[n].imageToRefine).status = "success"
        /\ The(refs[n].imageToRefine).segmentedImageUrl = DataUrl("SEG")
        /\ The(refs[n].imageToRefine).segmentationUncertaintyMapUrl = DataUrl("UNC")
        /\ images[p].status = "success"
        /\ images[p].heatmapImageUrl = DataUrl("HEAT-refined")

\* ------------------------------------------------------------------------
\* the status an item has in a collection, "absent" when it holds no such item
StatusOf(imgs, id) ==
    IF \E p \in DOMAIN imgs : imgs[p].id = id
    THEN imgs[CHOOSE p \in DOMAIN imgs : imgs[p].id = id].status
    ELSE "absent"
ItemOf(imgs, id) == imgs[CHOOSE p \in DOMAIN imgs : imgs[p].id = id]
Loading == {id \in ItemIds : StatusOf(images, id) = "loading"}
\* the items that leave Loading for Success or Error in this step
ResolvedNow ==
    {id \in ItemIds : StatusOf(images, id) = "loading"
                      /\ StatusOf(images', id) \in {"success", "error"}}

\* C11 as stated: no reachable state has two items Loading at the same time.
C11_NeverBothLoading == Cardinality(Loading) <= 1

\* C11 amended: the step that starts a run makes every candidate Loading at once
\* (two uploaded images are both Loading after 'analyze all'); after that the items
\* leave Loading one at a time, no step resolving two of them, and a run goes
\* through its candidates one by one in the order of the collection.
C11_LoadingTogetherResolvedInTurn ==
    /\ [][\A r \in Runs : Starts(r) =>
            \A c \in DOMAIN runs'[r].candidates :
                StatusOf(images', runs'[r].candidates[c].id) = "loading"]_vars
    /\ [][Cardinality(ResolvedNow) <= 1]_vars
    /\ [][\A r \in Runs : Active(r) =>
            /\ runs'[r].candidates = runs[r].candidates
            /\ runs'[r].idx \in {runs[r].idx, runs[r].idx + 1}
            /\ \A id \in ResolvedNow :
                  (\A x \in Runs \ {r} : ~Active(x)) /\ (\A n \in Refs : refs[n].st # "active")
                      => id = runs[r].candidates[runs[r].idx].id]_vars

\* C11 witness: a run that took two items has finished uncancelled and both items
\* are resolved
C11_Witness ==
    \E r \in Runs :
        /\ runs[r].st = "done" /\ ~runs[r].aborted
        /\ Len(runs[r].candidates) = 2
        /\ \A c \in 1..2 : StatusOf(images, runs[r].candidates[c].id) \in {"success", "error"}
        /\ \E c \in 1..2 : StatusOf(images, runs[r].candidates[c].id) = "success"

\* C12: in every reachable state an item with status Success holds a result and an
\* item with status Error holds an error message.
C12_ResultAndMessagePresent ==
    \A p \in DOMAIN images :
        /\ images[p].status = "success" => IsSome(images[p].result)
        /\ images[p].status = "error" => IsSome(images[p].error)

\* C12 witness: after a refinement has ended the collection holds an item that is
\* Success with its result and an item that is Error with its message
C12_Witness ==
    /\ \E n \in Refs : refs[n].st = "done"
    /\ \E p \in DOMAIN images : images[p].status = "success" /\ IsSome(images[p].result)
    /\ \E p \in DOMAIN images : images[p].status = "error" /\ IsSome(images[p].error)

StatusChanges ==
    {<<"pending", "loading">>, <<"loading", "success">>, <<"loading", "error">>,
     <<"success", "loading">>, <<"error", "loading">>}

\* C13: every change of the status of an item is one of Pending -> Loading,
\* Loading -> Success, Loading -> Error, Success -> Loading, Error -> Loading; an
\* item enters the collection as Pending.
C13_StatusMachine ==
    [][\A id \in ItemIds :
        LET before == StatusOf(images, id)
            after == StatusOf(images', id)
        IN  /\ (before # "absent" /\ after # "absent" /\ before # after)
                => <<before, after>> \in StatusChanges
            /\ (before = "absent" /\ after # "absent") => after = "pending"]_vars

\* C13 witness: a Success item is Loading again under a refinement while a later
\* batch run is in its loop on another item
C13_Witness ==
    \E n \in Refs, r \in Runs :
        /\ refs[n].st = "active" /\ StatusOf(images, refs[n].id) = "loading"
        /\ Active(r) /\ r > 1
        /\ runs[r].candidates[runs[r].idx].id # refs[n].id
        /\ StatusOf(images, runs[r].candidates[runs[r].idx].id) = "loading"

\* run r, its token signalled, leaves its loop in this step
ObservesCancel(r) == Active(r) /\ runs[r].aborted /\ runs'[r].st = "done"
\* the candidates run r has not reached
Unreached(r) ==
    {runs[r].candidates[c].id : c \in (runs[r].idx + 1)..Len(runs[r].candidates)}
NeverCalled(k) == \A kind \in Kinds : calls[k][kind] = Idle

\* C14: a run whose token is signalled goes to no further candidate, and the next
\* thing it does is leave the loop; in that step the candidates it has not reached
\* are left as they are, the candidate in flight does not become Success and is not
\* marked Error with the cancellation failure; a run that has left its loop early
\* has called analyzeImage for none of the candidates it did not reach, and those
\* stay Loading for as long as they are in the collection.
C14_CancelStopsTheLoop ==
    /\ [][\A r \in Runs : (Active(r) /\ runs[r].aborted) =>
            /\ runs'[r].idx = runs[r].idx
            /\ runs'[r] # runs[r] => runs'[r].st = "done"]_vars
    /\ [][\A r \in Runs : ObservesCancel(r) =>
            LET current == runs[r].candidates[runs[r].idx].id IN
            /\ \A p \in DOMAIN images :
                  images[p].id \in Unreached(r) =>
                      p \in DOMAIN images' /\ images'[p] = images[p]
            /\ StatusOf(images', current) # "success"
            /\ StatusOf(images', current) = "error" =>
                  ItemOf(images', current).error # Some(RequestCancelled)]_vars
    /\ [](\A r \in Runs : runs[r].st = "done" =>
            \A c \in DOMAIN runs[r].candidates : c > runs[r].idx =>
                /\ NeverCalled(Inv(r, c))
                /\ StatusOf(images, runs[r].candidates[c].id) \in {"loading", "absent"})
    /\ [](\A p \in DOMAIN images : images[p].error # Some(RequestCancelled))

\* C14 witness: a cancelled run has left its loop at its first candidate, which is
\* still Loading, as is the candidate after it, for which nothing was dispatched
C14_Witness ==
    \E r \in Runs :
        /\ runs[r].st = "done" /\ runs[r].aborted
        /\ runs[r].idx = 1 /\ Len(runs[r].candidates) >= 2
        /\ StatusOf(images, runs[r].candidates[1].id) = "loading"
        /\ StatusOf(images, runs[r].candidates[2].id) = "loading"
        /\ NeverCalled(Inv(r, 2))

\* the messages analyzeImage can fail with, other than the cancellation message
ClientMessages ==
    {<<"API Key Not Found.">>, <<"Invalid API Key.">>, <<"API Quota Exceeded.">>,
     <<"Content Safety Error.">>, <<"AI Service Unavailable.">>,
     <<"Request cancelled by user.">>, <<"Empty classification response.">>,
     <<"Invalid JSON response from AI.">>}
    \cup {<<context, "or received empty image data.">> :
            context \in {"Heatmap generation failed", "Segmentation failed",
                         "Uncertainty map failed"}}

CurrentId(r) == runs[r].candidates[runs[r].idx].id

\* run r marks its current candidate Error in this step
FailsCandidate(r) ==
    /\ runs[r].st = "loop" /\ runs'[r] # runs[r] /\ runs'[r].aborted = runs[r].aborted
    /\ StatusOf(images, CurrentId(r)) # "absent"
    /\ ItemOf(images', CurrentId(r)) # ItemOf(images, CurrentId(r))
    /\ StatusOf(images', CurrentId(r)) = "error"

\* C15: a candidate failure that is not the cancellation failure marks that candidate
\* Error with the message of the client and changes no other item, the run goes on to
\* its next candidate unless it is cancelled or has none left, and a run that ended
\* before its last candidate is a cancelled one
C15_FailureIsLocalAndRunContinues ==
    /\ [](\A r \in Runs :
            runs[r].st = "done" /\ ~runs[r].aborted => runs[r].idx = Len(runs[r].candidates))
    /\ [][\A r \in Runs : FailsCandidate(r) =>
            /\ \E message \in ClientMessages :
                    images' = [i \in DOMAIN images |->
                        IF images[i].id = CurrentId(r)
                        THEN [images[i] EXCEPT !.status = "error", !.error = Some(message)]
                        ELSE images[i]]
            /\ IF runs[r].idx < Len(runs[r].candidates) /\ ~runs[r].aborted
               THEN runs'[r] = [runs[r] EXCEPT !.idx = @ + 1, !.pc = "debugRequest"]
               ELSE runs'[r].st = "done"]_vars

\* a run has gone on to its second candidate after the first one exhausted its retries
C15_Witness ==
    \E r \in Runs :
        /\ runs[r].st = "loop" /\ ~runs[r].aborted /\ runs[r].idx = 2
        /\ StatusOf(images, runs[r].candidates[1].id) = "error"
        /\ ItemOf(images, runs[r].candidates[1].id).error = Some(<<"API Quota Exceeded.">>)
        /\ \A x \in Runs : x # r => runs[x].st = "idle"

\* C16: the step that starts a batch run sets every candidate of the run to Loading,
\* mapping-status Unverified and no error message, leaves every other item as it was,
\* and dispatches nothing: no sub-call of the run exists when the step is over
C16_OptimisticUpdate ==
    [][\A r \in Runs : Starts(r) =>
        /\ DOMAIN images' = DOMAIN images
        /\ \A i \in DOMAIN images :
                IF IsCandidate(r, images[i].id)
                THEN images'[i] = [images[i] EXCEPT !.status = "loading", !.error = None,
                                                    !.mappingStatus = "unverified"]
                ELSE images'[i] = images[i]
        /\ \A c \in DOMAIN runs'[r].candidates : StatusOf(images, runs'[r].candidates[c].id) # "absent"
        /\ calls' = calls
        /\ \A i \in 1..MaxItems, kind \in Kinds : calls'[Inv(r, i)][kind] = Idle]_vars

\* the second run has just started and no call of it is out; its candidate had been
\* analysed by the first run, which left it a mapping status, and is Loading and
\* Unverified again, next to an item that is no candidate and is still Success
C16_Witness ==
    /\ runs[1].st = "done" /\ runs[3].st = "idle"
    /\ runs[2].st = "loop" /\ runs[2].idx = 1 /\ runs[2].pc = "debugRequest"
    /\ \A kind \in Kinds : calls[Inv(2, 1)][kind] = Idle
    /\ \E i, j \in DOMAIN images :
        /\ images[i].id = runs[2].candidates[1].id
        /\ IsSome(images[i].result)
        /\ images[i].status = "loading" /\ images[i].mappingStatus = "unverified"
        /\ images[i].error = None
        /\ images[j].status = "success" /\ images[j].mappingStatus = "verified"

\* C17: when the token of a run is signalled while analyzeImage waits on the join of
\* its sub-calls, analyzeImage ends with the cancellation error whatever the sub-calls
\* returned or threw: the loop breaks and the item of the candidate is not touched
C17_CancelWinsAtTheJoin ==
    [][\A r \in Runs : Settles(r) /\ runs[r].aborted =>
            images' = images /\ runs'[r].st = "done"]_vars

\* run r enters analyzeImage for its current candidate in this step
Enters(r) ==
    /\ Active(r) /\ runs[r].pc = "debugRequest"
    /\ runs'[r] # runs[r] /\ runs'[r].aborted = runs[r].aborted

\* C18: analyzeImage entered without the credential or with a signalled token fails
\* without encoding the image and without a remote call, and with a signalled token
\* it fails with the cancellation error: the loop breaks and no item is touched
C18_FailFastAtEntry ==
    [][\A r \in Runs : Enters(r) =>
        /\ (~apiKey \/ runs[r].aborted) =>
                runs'[r].pc # "fileToGenerativePart" /\ calls' = calls
        /\ runs[r].aborted => images' = images /\ runs'[r].st = "done"]_vars

\* the part of C18 that does not depend on which precondition is tested first
C18_NoEncodingNoCall ==
    [][\A r \in Runs : Enters(r) /\ (~apiKey \/ runs[r].aborted) =>
            runs'[r].pc # "fileToGenerativePart" /\ calls' = calls]_vars

\* invocation k creates its sub-calls in this step
Dispatches(k) == (\A kind \in Kinds : calls[k][kind] = Idle) /\ calls'[k] # calls[k]
FirstAttempt == SubCall("inflight", DefaultRetries, DefaultDelay, None)
SegmentationKinds == {"segmentation", "segmentationUncertainty"}

\* C19: an invocation with refinement text never has its segmentation or uncertainty
\* call handed to the remote capability while its classification and heatmap calls
\* are; an invocation without refinement text (and with no cancellation) gets all
\* four calls in flight; and the calls of an invocation leave the idle state in one
\* step, so that none of them has been awaited when the last one is dispatched
C19_FanOut ==
    /\ [](\A n \in Refs, kind \in SegmentationKinds :
            calls[RefInv(n)][kind].st \in {"idle", "skipped", "over"})
    /\ [][\A k \in InvIds :
            /\ \A kind \in Kinds :
                    calls[k][kind] = Idle /\ calls'[k][kind] # Idle => Dispatches(k)
            /\ Dispatches(k) =>
                    IF k[1] = "ref"
                    THEN /\ Truthy(refs[k[2]].feedback)
                         /\ \A kind \in Kinds :
                                calls'[k][kind] = IF kind \in SegmentationKinds
                                                  THEN Skipped ELSE FirstAttempt
                    ELSE ~runs[k[2]].aborted =>
                            \A kind \in Kinds : calls'[k][kind] = FirstAttempt]_vars

\* a refinement has its classification and heatmap calls in flight and the other two
\* skipped, while a batch candidate has all four of its calls in flight
C19_Witness ==
    /\ \E n \in Refs :
            /\ refs[n].pc = "join"
            /\ \A kind \in Kinds :
                    calls[RefInv(n)][kind] = IF kind \in SegmentationKinds
                                             THEN Skipped ELSE FirstAttempt
    /\ \E r \in Runs :
            /\ Active(r) /\ runs[r].pc = "join"
            /\ \A kind \in Kinds : calls[Inv(r, runs[r].idx)][kind] = FirstAttempt

AnalyzeReturned == probe.fn = "analyzeImage" /\ probe.pc = "return"
\* the artifacts analyzeImage extracts, in the order it extracts them
ExtractionOrder ==
    IF Truthy(probe.refinementFeedback) THEN <<"heatmap">>
    ELSE <<"heatmap", "segmentation", "segmentationUncertainty">>
ContextOf(kind) ==
    CASE kind = "heatmap" -> "Heatmap generation failed"
      [] kind = "segmentation" -> "Segmentation failed"
      [] OTHER -> "Uncertainty map failed"
MissingPayload ==
    {p \in DOMAIN ExtractionOrder : ~Truthy(The(probe.resp[ExtractionOrder[p]]).data)}
FirstMissing == ExtractionOrder[CHOOSE p \in MissingPayload : \A q \in MissingPayload : p <= q]
WellFormed == The(probe.resp["classification"]).text.form = "json"

\* C20: a successful return of analyzeImage carries the heatmap payload of the heatmap
\* answer and, without refinement text, the payloads of the segmentation and the
\* uncertainty answers; when an expected answer has no inline image data analyzeImage
\* does not return a result, and unless it has already failed on the cancellation or
\* on the classification body it fails with the extraction message of that artifact
C20_PayloadsOrExtractionError ==
    AnalyzeReturned =>
        LET out == The(probe.returned) IN
        /\ out.ok =>
            /\ Truthy(out.value.heatmapImageBase64)
            /\ out.value.heatmapImageBase64 = The(probe.resp["heatmap"]).data
            /\ ~Truthy(probe.refinementFeedback) =>
                /\ Truthy(out.value.segmentedImageBase64)
                /\ out.value.segmentedImageBase64 = The(probe.resp["segmentation"]).data
                /\ Truthy(out.value.segmentationUncertaintyMapBase64)
                /\ out.value.segmentationUncertaintyMapBase64
                        = The(probe.resp["segmentationUncertainty"]).data
        /\ MissingPayload # {} =>
            /\ ~out.ok
            /\ (~probe.aborted /\ WellFormed) =>
                    out.error.message
                        = <<ContextOf(FirstMissing), "or received empty image data.">>
        /\ (MissingPayload = {} /\ ~probe.aborted /\ WellFormed) => out.ok

\* without refinement text, the heatmap answer carries an image and the segmentation
\* answer carries none: the call has failed with the message naming the segmentation
C20_Witness ==
    /\ AnalyzeReturned
    /\ ~Truthy(probe.refinementFeedback) /\ ~probe.aborted /\ WellFormed
    /\ Truthy(The(probe.resp["heatmap"]).data)
    /\ The(probe.resp["segmentation"]).data = Undefined
    /\ ~The(probe.returned).ok
    /\ The(probe.returned).error.message
            = <<"Segmentation failed", "or received empty image data.">>

\* a batch run starts or has its token signalled in this step
BatchTokenChanges == \E r \in Runs : Starts(r) \/ runs'[r].aborted # runs[r].aborted

\* C21: the start of a refinement changes no run, no token and neither the slot nor
\* the running flag; the start or the cancellation of a batch run changes no
\* refinement and none of its sub-calls; the sub-calls of a refinement are dispatched
\* and dispatched again after a backoff wait whatever the tokens of the runs are; and
\* the outcome of a refinement is written to its item, never as a cancellation
C21_RefinementIndependent ==
    [][/\ \A n \in Refs : RefineStarts(n) =>
            runs' = runs /\ abortControllerRef' = abortControllerRef
                         /\ isAnalyzing' = isAnalyzing
       /\ BatchTokenChanges =>
            refs' = refs /\ \A n \in Refs : calls'[RefInv(n)] = calls[RefInv(n)]
       /\ \A n \in Refs :
            /\ Dispatches(RefInv(n)) =>
                    \A kind \in Kinds \ SegmentationKinds :
                        calls'[RefInv(n)][kind] = FirstAttempt
            /\ \A kind \in Kinds :
                    (calls[RefInv(n)][kind].st = "backoff"
                        /\ calls'[RefInv(n)][kind] # calls[RefInv(n)][kind])
                    => calls'[RefInv(n)][kind].st = "inflight"
            /\ (RefineEnds(n) /\ StatusOf(images, refs[n].id) # "absent") =>
                    /\ StatusOf(images', refs[n].id) \in {"success", "error"}
                    /\ ItemOf(images', refs[n].id).error # Some(RequestCancelled)]_vars

\* a refinement is waiting on its two calls while the first run, its token signalled
\* by the start of the second, and the second run are both in their loops
C21_Witness ==
    /\ refs[1].st = "active" /\ refs[1].pc = "join"
    /\ \E kind \in Kinds : calls[RefInv(1)][kind].st = "inflight"
    /\ Active(1) /\ runs[1].aborted
    /\ Active(2) /\ ~runs[2].aborted /\ abortControllerRef = 2

\* the messages that stand for a cancellation: the one analyzeImage throws by itself
\* and the one parseApiError returns for a failure it classifies as a cancellation
CancellationMessages == {RequestCancelled, <<"Request cancelled by user.">>}

\* C22: no item has status Error with a cancellation message, and a step in which a
\* run marks its candidate Error never writes one: a failure classified as a
\* cancellation stops the run without a mark
C22_CancellationNeverAnItemError ==
    /\ [](\A p \in DOMAIN images :
            images[p].status = "error" =>
                \A message \in CancellationMessages : images[p].error # Some(message))
    /\ [][\A r \in Runs : FailsCandidate(r) =>
            \A message \in CancellationMessages :
                ItemOf(images', CurrentId(r)).error # Some(message)]_vars

Resolved == {"success", "error", "absent"}
CandidateResolved(r, c) ==
    c \in DOMAIN runs[r].candidates
        /\ StatusOf(images, runs[r].candidates[c].id) \in Resolved
Finished(r) ==
    /\ runs[r].st = "done" /\ ~isAnalyzing
    /\ \A c \in DOMAIN runs[r].candidates : CandidateResolved(r, c)

\* C23: when every remote call returns or fails and every timer and reader fires, a
\* batch run in its loop is eventually cancelled, or it has left the loop with the
\* running flag false and each of its candidates Success, Error or gone from the
\* collection
C23_Progress == \A r \in Runs : Active(r) ~> (runs[r].aborted \/ Finished(r))

\* a run of two candidates has ended without a cancellation: both are resolved and
\* present, the flag is false and the slot is empty
C23_Witness ==
    \E r \in Runs :
        /\ runs[r].st = "done" /\ ~runs[r].aborted /\ Len(runs[r].candidates) = 2
        /\ \A c \in 1..2 : StatusOf(images, runs[r].candidates[c].id) \in {"success", "error"}
        /\ ~isAnalyzing /\ abortControllerRef = 0
        /\ \A x \in Runs : ~Active(x)

\* ------------------------------------------------------------------- C24
\* run r goes on in this step: a continuation of its loop, not its cancellation
Continues(r) ==
    Active(r) /\ runs'[r] # runs[r] /\ runs'[r].aborted = runs[r].aborted
\* the step changes no item but the one with this id, and adds and removes none
KeyedBy(id) ==
    /\ Len(images') = Len(images)
    /\ \A i \in DOMAIN images :
        /\ images'[i].id = images[i].id
        /\ images[i].id # id => images'[i] = images[i]
    /\ StatusOf(images, id) = "absent" => images' = images
Minted == {IdNames[n] : n \in (uuids + 1)..uuids'}

\* C24: a continuation of a batch run changes at most the item that has the id of the
\* run's current candidate, the end of a refinement at most the item that has the
\* refined id; both leave the ids of the collection as they are, and all of it when
\* that item is gone.  An id enters the collection only when it is minted.
C24_KeyedById ==
    [][/\ \A r \in Runs : Continues(r) => KeyedBy(CurrentId(r))
       /\ \A n \in Refs : RefineEnds(n) => KeyedBy(refs[n].id)
       /\ \A id \in ItemIds :
            StatusOf(images, id) = "absent" /\ StatusOf(images', id) # "absent"
                => id \in Minted]_vars

\* the first candidate of a run has been completed and written, the other item was
\* deleted while the run is waiting for its round trip
C24_Witness ==
    \E r \in Runs :
        /\ Active(r) /\ ~runs[r].aborted /\ runs[r].pc = "join" /\ runs[r].idx = 2
        /\ StatusOf(images, runs[r].candidates[1].id) = "success"
        /\ StatusOf(images, CurrentId(r)) = "absent"

\* ------------------------------------------------------------------- C25
\* C25: a batch run whose token is signalled makes no further change to the item
\* collection: the outcome of its candidate in flight is neither written as Success
\* nor as Error
C25_SignalledRunWritesNothing ==
    [][\A r \in Runs : Continues(r) /\ runs[r].aborted => images' = images]_vars

\* the part of C25 that holds: a signalled run never writes a Success
C25_SignalledRunWritesNoSuccess ==
    [][\A r \in Runs : Continues(r) /\ runs[r].aborted =>
            \A i \in DOMAIN images' :
                images'[i].status = "success" => i \in DOMAIN images /\ images[i] = images'[i]]_vars

\* ------------------------------------------------------------------- C26
\* C26: whenever a batch run is executing its loop with a token that is not signalled,
\* isAnalyzing is true and abortControllerRef holds the token of a run
C26_FlagAndSlotReflectRuns ==
    (\E r \in Runs : Active(r) /\ ~runs[r].aborted)
        => isAnalyzing /\ abortControllerRef # 0

\* ------------------------------------------------------------------- C27
\* C27: an item that is Success and Verified holds a result whose processedId is
\* absent or the id of the item
C27_VerifiedDescribesResult ==
    \A i \in DOMAIN images :
        images[i].status = "success" /\ images[i].mappingStatus = "verified"
            => /\ IsSome(images[i].result)
               /\ The(images[i].result).processedId \in {Undefined, images[i].id}

\* the same with the empty text read as an absent processedId, as verifyMapping reads it
C27_VerifiedUpToEmptyText ==
    \A i \in DOMAIN images :
        images[i].status = "success" /\ images[i].mappingStatus = "verified"
            => /\ IsSome(images[i].result)
               /\ The(images[i].result).processedId \in {Undefined, "", images[i].id}

\* ------------------------------------------------------------------- C28
\* C28: an item carries an error message only while its status is Error; an item that
\* is Pending, Loading or Success has none
C28_MessageOnlyWhileError ==
    \A i \in DOMAIN images : images[i].error # None => images[i].status = "error"

\* an item that failed in one run was taken up again by a later run (Retry Failed takes
\* the Error items only) and is now Success, without a message
C28_Witness ==
    \E i \in DOMAIN images, r \in Runs, x \in Runs :
        /\ r < x
        /\ \E c \in DOMAIN runs[r].candidates : runs[r].candidates[c].id = images[i].id
        /\ \E c \in DOMAIN runs[x].candidates : runs[x].candidates[c].id = images[i].id
        /\ images[i].status = "success" /\ images[i].error = None

====
